---- MODULE Spec2Model ----
(***************************************************************************)
(* Model of libtorrent's page-aligned allocator (src/src/allocator.cpp):   *)
(* page_size(), page_aligned_allocator::malloc/free/in_use, in production  *)
(* mode and in diagnostic mode (TORRENT_DEBUG_BUFFERS), for each of the    *)
(* build-time platform variants.                                           *)
(*                                                                         *)
(* Memory is modelled page by page: every page of the address space has a  *)
(* protection ("none" = not mapped, "rw", "ro") and, where the allocator   *)
(* stored an alloc_header at its start, the header's size and magic.       *)
(* Addresses are integers; page i covers [i*page, (i+1)*page).             *)
(***************************************************************************)
EXTENDS Integers, Sequences, FiniteSets

VARIABLES
  platform,  \* build-time choice of the aligned-allocation primitive
  debug,     \* TRUE iff built with TORRENT_DEBUG_BUFFERS
  q,         \* what the environment answers to the page-size query
  s,         \* page_size()'s function-local static
  prot,      \* page -> "none" | "rw" | "ro"
  hdr,       \* page -> content at the start of the page
  areas,     \* regions the platform primitive has handed out and not taken back
  live,      \* blocks returned by malloc and not yet freed
  stale,     \* pointers to freed blocks that callers still hold
  misused,   \* TRUE once free was called on an already-freed pointer
  status,    \* "running" | "assert" | "segv"
  last,      \* the last call and what it did
  mallocs,   \* number of calls of malloc so far
  pc,        \* thread -> position inside page_size()
  rets       \* thread -> values page_size() returned to it

vars == <<platform, debug, q, s, prot, hdr, areas, live, stale, misused,
          status, last, mallocs, pc, rets>>

allocVars == <<prot, hdr, areas, live, stale, misused, status, last, mallocs>>
threadVars == <<pc, rets>>

\* ---- bounds ----
MaxPages == 6
MaxMallocs == 2
NThreads == 2
MaxCalls == 2

\* ---- program constants ----
Magic == 4919
DefaultPage == 4096
SanityLimit == 805306368
BigPage == 8192
FreedFill == 221

Pages == 1..MaxPages
Threads == 1..NThreads
Platforms == {"posix_memalign", "memalign", "windows", "beos", "valloc"}

\* ---- page_size() ----
\* What the query of lines 83-93 can produce on each variant: B_PAGE_SIZE is a
\* constant; dwPageSize is a positive DWORD; sysconf may fail (-1) or
\* report a non-positive value.  TORRENT_BUILD_SIMULATOR behaves as a query
\* answering 4096.
QueryResults(plat) ==
  IF plat = "beos" THEN {DefaultPage}
  ELSE IF plat = "windows" THEN {DefaultPage}
  ELSE {-1, 0, BigPage}

Fallback(v) == IF v <= 0 THEN DefaultPage ELSE v

\* page_size() run to completion by one caller: the value returned, which is
\* also the value left in the static.
page_size(sv, qv) == IF sv # 0 THEN sv ELSE Fallback(qv)

\* ---- arithmetic of malloc/free ----
RECURSIVE BitAnd(_, _)
BitAnd(a, b) ==
  IF a = 0 \/ b = 0 THEN 0
  ELSE (a % 2) * (b % 2) + 2 * BitAnd(a \div 2, b \div 2)

LegalSize(bytes, page) == bytes > 0 /\ bytes < SanityLimit /\ bytes >= page

NumPagesM(bytes, page) == bytes \div page + 2
NumPages(bytes, page) == (bytes + (page - 1)) \div page + 2

CapacityM(dbg, bytes, page) ==
  IF dbg THEN (NumPages(bytes, page) - 1) * page ELSE bytes
Capacity(dbg, bytes, page) ==
  IF dbg THEN NumPages(bytes, page) * page ELSE bytes

\* the size handed to the platform primitive
Requested(plat, cap, page) ==
  IF plat = "beos" THEN BitAnd(cap + page - 1, page - 1) ELSE cap

BlockOfM(dbg, ret, page) == IF dbg THEN ret + page - 16 ELSE ret + 16
BlockOf(dbg, ret, page) == IF dbg THEN ret + page ELSE ret

\* the value malloc stores into h->size
StoredSize(orig, cap) == orig

\* the value malloc stores into h->magic
LiveTagM == Magic + 1
LiveTag == Magic

MallocTailAddr(ret, np, page) == ret + (np - 1) * page

FreeTailAddrM(block, np, page) == block + (np - 1) * page
FreeTailAddr(block, np, page) == block + (np - 2) * page

HeaderAddr(block, page) == block - page

\* the value free stores into h->magic
FreedTagM == Magic
FreedTag == 0

IsNullM(block) == FALSE
IsNull(block) == block = 0

\* ---- memory ----
RawC == [kind |-> "raw", size |-> 0, magic |-> 0]
FillC == [kind |-> "fill", size |-> FreedFill, magic |-> FreedFill]
Header(sz, mg) == [kind |-> "hdr", size |-> sz, magic |-> mg]

\* sizes callers ask for: one page, and a size that is not a multiple of the
\* page
SizeInputs(page) == {page, page + 1}

ProtAt(pr, p) == IF p \in Pages THEN pr[p] ELSE "none"

\* mprotect(addr, page, newp); it fails (ENOMEM, result ignored by the
\* callers) on memory that is not mapped
MProtect(pr, addr, page, newp) ==
  LET p == addr \div page
  IN IF p \in Pages /\ pr[p] # "none" THEN [pr EXCEPT ![p] = newp] ELSE pr

\* what a load of an alloc_header at the start of mapped page p can see:
\* the header stored there, the fill pattern of a released region, or
\* anything at all where callers' data or never-written memory lies
HdrReads(hd, p, page) ==
  IF hd[p].kind = "raw"
  THEN {Header(sz, mg) : sz \in {page, 2 * page}, mg \in {0, Magic}}
  ELSE {hd[p]}

PagesOf(a) == a.base..(a.base + a.n - 1)
PagesFor(req, page) == (req + page - 1) \div page
Reserved == UNION {PagesOf(a) : a \in areas}

\* the addresses the platform primitive may return for a request of req
\* bytes aligned to page: 0 (failure, always possible), or the start of a run
\* of pages none of which is handed out.  create_area (Be Book) answers
\* B_BAD_VALUE unless the size is a positive multiple of B_PAGE_SIZE, and
\* maps fresh pages.
PrimitiveResults(plat, req, page) ==
  LET n == PagesFor(req, page)
      fits(k) == /\ n >= 1
                 /\ k + n - 1 \in Pages
                 /\ \A p \in k..(k + n - 1) : p \notin Reserved
      ok(k) == IF plat = "beos"
               THEN /\ req > 0 /\ req % page = 0 /\ fits(k)
                    /\ \A p \in k..(k + n - 1) : prot[p] = "none"
               ELSE fits(k)
  IN {0} \cup {k * page : k \in {j \in Pages : ok(j)}}

FailedM(ret) == FALSE
Failed(ret) == ret = 0

NoCall == [op |-> "none", arg |-> 0, ret |-> 0, req |-> -1, align |-> 0, raw |-> -1,
           rel |-> 0, hprot |-> "-", tprot |-> "-", who |-> "-"]

\* The process runs on until an assertion fails or an access faults.  What
\* it does after a free of an already-freed pointer went unnoticed is
\* undefined; a run is followed up to and including that free.
Running == status = "running" /\ ~misused

\* ---- page_aligned_allocator::malloc ----
MallocFinish(bytes, cap, page, np, req, ret) ==
  LET call == [NoCall EXCEPT !.op = "malloc", !.arg = bytes, !.req = req,
                             !.align = page, !.raw = ret]
  IN
  IF Failed(ret)
  THEN /\ last' = call
       /\ UNCHANGED <<prot, hdr, areas, live, stale, misused, status>>
  ELSE
    LET k == ret \div page
        area == [base |-> k, n |-> PagesFor(req, page)]
        fresh == {p \in PagesOf(area) \cap Pages : prot[p] = "none"}
        pr1 == [p \in Pages |-> IF p \in fresh THEN "rw" ELSE prot[p]]
        h1 == [p \in Pages |-> IF p \in fresh THEN RawC ELSE hdr[p]]
        block == BlockOf(debug, ret, page)
        data == {p \in Pages : /\ p >= block \div page
                               /\ p <= (block + bytes - 1) \div page
                               /\ pr1[p] = "rw"}
        foot(st) == HeaderAddr(st.addr, page) \div page
    IN
    /\ areas' = areas \cup {area}
    /\ stale' = {[st EXCEPT !.clean = st.clean /\ (debug => foot(st) \notin PagesOf(area))]
                  : st \in stale}
    /\ misused' = misused
    /\ IF ~debug
       THEN /\ prot' = pr1
            /\ hdr' = [p \in Pages |-> IF p \in data THEN RawC ELSE h1[p]]
            /\ live' = live \cup {[addr |-> block, size |-> bytes,
                                   base |-> k, n |-> area.n]}
            /\ status' = status
            /\ last' = [call EXCEPT !.ret = block]
       ELSE IF ProtAt(pr1, k) # "rw"
       THEN \* the store to h->size faults
            /\ prot' = pr1 /\ hdr' = h1 /\ live' = live
            /\ status' = "segv"
            /\ last' = call
       ELSE /\ hdr' = [p \in Pages |-> IF p = k THEN Header(StoredSize(bytes, cap), LiveTag)
                                       ELSE IF p \in data THEN RawC
                                       ELSE h1[p]]
            /\ prot' = MProtect(MProtect(pr1, ret, page, "ro"),
                                MallocTailAddr(ret, np, page), page, "ro")
            /\ live' = live \cup {[addr |-> block, size |-> bytes,
                                   base |-> k, n |-> area.n]}
            /\ status' = status
            /\ last' = [call EXCEPT !.ret = block]

Malloc(bytes) ==
  /\ Running
  /\ LET page == page_size(s, q) IN
     /\ s' = page
     /\ bytes \in SizeInputs(page)
     /\ LegalSize(bytes, page)       \* the TORRENT_ASSERTs of lines 102-107
     /\ LET np == NumPages(bytes, page)
            cap == Capacity(debug, bytes, page)
            req == Requested(platform, cap, page)
        IN \E ret \in PrimitiveResults(platform, req, page) :
              MallocFinish(bytes, cap, page, np, req, ret)
  /\ mallocs < MaxMallocs
  /\ mallocs' = mallocs + 1
  /\ UNCHANGED <<platform, debug, q, threadVars>>

\* ---- page_aligned_allocator::free ----
\* What the platform does with a region it takes back: the heap may keep the
\* pages mapped with their content, keep them and overwrite the content
\* (heaps store their own links where the header was, debug heaps fill
\* released memory), or return them to the OS.  delete_area always unmaps.
\* Without TORRENT_DEBUG_BUFFERS no header exists and the region holds the
\* caller's data only.
ReleaseModes(plat, dbg) ==
  IF plat = "beos" THEN {"unmap"}
  ELSE IF dbg THEN {"keep", "fill", "unmap"}
  ELSE {"keep", "unmap"}

\* the handed-out region the release call finds for raw address raw:
\* area_for() finds the area containing the address, free() and
\* _aligned_free() need the address they returned
AreasAt(plat, raw, page) ==
  IF plat = "beos"
  THEN {a \in areas : raw \div page \in PagesOf(a)}
  ELSE {a \in areas : a.base * page = raw}

\* the tail of free: lines 190-198, with the protections pr and contents hd
\* that the diagnostic part left behind
Release(raw, page, pr, hd, block, who) ==
  LET call == [NoCall EXCEPT !.op = "free", !.arg = block, !.who = who]
      found == AreasAt(platform, raw, page)
      forget == IF debug
                THEN {st \in stale : st.addr # block}
                       \cup {[addr |-> block, clean |-> TRUE]}
                ELSE stale
  IN
  /\ misused' = (misused \/ who = "stale")
  /\ IF found = {}
     THEN \* area_for() fails and free returns; free() of a pointer the heap
          \* does not know is undefined: it aborts or goes unnoticed
          /\ prot' = pr /\ hdr' = hd /\ areas' = areas
          /\ live' = {l \in live : l.addr # block \/ who = "stale"}
          /\ stale' = forget
          /\ last' = call
          /\ \/ status' = status
             \/ platform # "beos" /\ status' = "segv"
     ELSE \E a \in found, mode \in ReleaseModes(platform, debug) :
          /\ areas' = areas \ {a}
          /\ prot' = [p \in Pages |-> IF p \in PagesOf(a) /\ mode = "unmap"
                                      THEN "none" ELSE pr[p]]
          /\ hdr' = [p \in Pages |->
                       IF p \notin PagesOf(a) THEN hd[p]
                       ELSE IF mode = "unmap" THEN RawC
                       ELSE IF mode = "fill" THEN FillC
                       ELSE hd[p]]
          /\ live' = {l \in live : l.addr # block /\ l.base # a.base}
          /\ stale' = forget
          /\ status' = status
          /\ last' = [call EXCEPT !.rel = a.base,
                                  !.hprot = ProtAt(pr, a.base),
                                  !.tprot = ProtAt(pr, a.base + a.n - 1)]

Free(block, who) ==
  /\ Running
  /\ who \in {"owner", "stale"}
  /\ who = "owner" => (block = 0 \/ \E l \in live : l.addr = block)
  \* a free of an already-freed pointer breaks free's contract; it is let
  \* happen where the build checks for it (line 174)
  /\ who = "stale" => (debug /\ \E st \in stale : st.addr = block)
  /\ UNCHANGED <<platform, debug, q, mallocs, threadVars>>
  /\ IF IsNull(block)
     THEN /\ last' = [NoCall EXCEPT !.op = "free", !.arg = block, !.who = who]
          /\ UNCHANGED <<s, prot, hdr, areas, live, stale, misused, status>>
     ELSE IF ~debug
     THEN /\ s' = s
          /\ Release(block, page_size(s, q), prot, hdr, block, who)
     ELSE
       LET page == page_size(s, q)
           ha == HeaderAddr(block, page)
           hp == ha \div page
           pr1 == MProtect(prot, ha, page, "rw")
           call == [NoCall EXCEPT !.op = "free", !.arg = block, !.who = who]
       IN
       /\ s' = page
       /\ IF ProtAt(pr1, hp) = "none"
          THEN \* the load of h->size faults
               /\ status' = "segv" /\ last' = call
               /\ misused' = (misused \/ who = "stale")
               /\ UNCHANGED <<prot, hdr, areas, live, stale>>
          ELSE \E h \in HdrReads(hdr, hp, page) :
               IF h.magic # Magic
               THEN /\ status' = "assert" /\ last' = call
                    /\ prot' = pr1
                    /\ misused' = (misused \/ who = "stale")
                    /\ UNCHANGED <<hdr, areas, live, stale>>
               ELSE LET np == NumPages(h.size, page)
                        pr2 == MProtect(pr1, FreeTailAddr(block, np, page),
                                        page, "rw")
                        h2 == [hdr EXCEPT ![hp] = Header(h.size, FreedTag)]
                    IN Release(ha, page, pr2, h2, block, who)

\* ---- page_aligned_allocator::in_use ----
\* the outcomes of in_use(block) in the current state
InUseResults(block) ==
  LET page == page_size(s, q)
      hp == HeaderAddr(block, page) \div page
  IN IF ProtAt(prot, hp) = "none" THEN {"fault"}
     ELSE {IF h.magic = Magic THEN "true" ELSE "false"
             : h \in HdrReads(hdr, hp, page)}

InUse(block) ==
  /\ Running
  /\ debug
  /\ block \in {l.addr : l \in live} \cup {st.addr : st \in stale}
  /\ s' = page_size(s, q)
  /\ \E r \in InUseResults(block) :
       /\ status' = IF r = "fault" THEN "segv" ELSE status
       /\ last' = [NoCall EXCEPT !.op = "in_use", !.arg = block,
                                 !.ret = IF r = "true" THEN 1 ELSE 0]
  /\ UNCHANGED <<platform, debug, q, prot, hdr, areas, live, stale, misused,
                 mallocs, threadVars>>

\* ---- the allocator used by one caller at a time ----
InitAlloc ==
  /\ prot = [p \in Pages |-> "none"]
  /\ hdr = [p \in Pages |-> RawC]
  /\ areas = {}
  /\ live = {}
  /\ stale = {}
  /\ misused = FALSE
  /\ status = "running"
  /\ last = NoCall
  /\ mallocs = 0

Init ==
  /\ platform \in Platforms
  /\ debug \in BOOLEAN
  /\ q \in QueryResults(platform) \ {0}
  /\ s = 0
  /\ InitAlloc
  /\ pc = [t \in Threads |-> "idle"]
  /\ rets = [t \in Threads |-> <<>>]

Addrs == {0} \cup {l.addr : l \in live} \cup {st.addr : st \in stale}

Next ==
  \/ \E bytes \in SizeInputs(DefaultPage) \cup SizeInputs(BigPage) : Malloc(bytes)
  \/ \E block \in Addrs, who \in {"owner", "stale"} : Free(block, who)
  \/ \E block \in Addrs : InUse(block)

Spec == Init /\ [][Next]_vars

\* ---- page_size() called by several threads at once ----
\* Each access to the static is one step; the static is a plain int, so the
\* threads' loads and stores interleave freely.
PsCall(t) ==
  /\ pc[t] = "idle"
  /\ Len(rets[t]) < MaxCalls
  /\ pc' = [pc EXCEPT ![t] = "test"]
  /\ UNCHANGED <<platform, debug, q, s, allocVars, rets>>

\* line 81: if (s != 0) return s;
PsTest(t) ==
  /\ pc[t] = "test"
  /\ IF s # 0
     THEN /\ rets' = [rets EXCEPT ![t] = Append(@, s)]
          /\ pc' = [pc EXCEPT ![t] = "idle"]
     ELSE /\ rets' = rets
          /\ pc' = [pc EXCEPT ![t] = "query"]
  /\ UNCHANGED <<platform, debug, q, s, allocVars>>

\* lines 83-93: s = <the variant's query>;
PsQuery(t) ==
  /\ pc[t] = "query"
  /\ s' = q
  /\ pc' = [pc EXCEPT ![t] = "fix"]
  /\ UNCHANGED <<platform, debug, q, allocVars, rets>>

\* line 96: if (s <= 0) s = 4096;
PsFix(t) ==
  /\ pc[t] = "fix"
  /\ s' = Fallback(s)
  /\ pc' = [pc EXCEPT ![t] = "ret"]
  /\ UNCHANGED <<platform, debug, q, allocVars, rets>>

\* line 97: return s;
PsReturn(t) ==
  /\ pc[t] = "ret"
  /\ rets' = [rets EXCEPT ![t] = Append(@, s)]
  /\ pc' = [pc EXCEPT ![t] = "idle"]
  /\ UNCHANGED <<platform, debug, q, s, allocVars>>

InitPS ==
  /\ platform \in Platforms
  /\ debug \in BOOLEAN
  /\ q \in QueryResults(platform)
  /\ s = 0
  /\ InitAlloc
  /\ pc = [t \in Threads |-> "idle"]
  /\ rets = [t \in Threads |-> <<>>]

NextPS ==
  \/ \E t \in Threads : PsCall(t)
  \/ \E t \in Threads : PsTest(t)
  \/ \E t \in Threads : PsQuery(t)
  \/ \E t \in Threads : PsFix(t)
  \/ \E t \in Threads : PsReturn(t)

SpecPS == InitPS /\ [][NextPS]_vars

\* ======================= the claims =======================

\* C1: whenever malloc succeeds, the address it returns is a multiple of
\* page_size(), with and without TORRENT_DEBUG_BUFFERS.
C1_ReturnedAddressAligned ==
  (last.op = "malloc" /\ last.ret # 0) =>
     /\ s > 0
     /\ last.ret % s = 0
     /\ LegalSize(last.arg, s)

C1_Witness ==
  /\ last.op = "malloc" /\ last.ret # 0 /\ debug
  /\ q = -1 /\ last.arg = DefaultPage + 1

\* C2 (as claimed): every call of page_size(), also one racing with the first
\* computation, returns the same positive value, and 4096 when the query
\* fails or reports a value <= 0.
C2_SamePositiveValue ==
  \A t \in Threads : \A i \in 1..Len(rets[t]) :
     /\ rets[t][i] > 0
     /\ rets[t][i] = (IF q <= 0 THEN DefaultPage ELSE q)

\* C3 (as claimed, counting a memory fault as caught too): with
\* TORRENT_DEBUG_BUFFERS a second free of a freed block is always fatal and
\* never silently succeeds or releases memory, whatever happened in between.
C3_DoubleFreeAlwaysCaught ==
  [][ (debug /\ last'.op = "free" /\ last'.who = "stale" /\ vars' # vars)
        => (status' # "running" /\ areas' = areas) ]_vars

\* C3 (amended): a second free of a freed block is fatal and releases nothing
\* as long as malloc has not handed out the page of the block's header again
\* since the first free: the tag assertion fails where the released region is
\* still mapped, the load of the header faults where it was unmapped.
C3_DoubleFreeCaughtUnlessReused ==
  [][ (/\ debug /\ last'.op = "free" /\ last'.who = "stale" /\ vars' # vars
       /\ [addr |-> last'.arg, clean |-> TRUE] \in stale)
        => LET page == page_size(s, q)
               hp == (last'.arg - page) \div page
           IN /\ areas' = areas
              /\ live' = live
              /\ hdr' = hdr
              /\ status' = IF ProtAt(prot, hp) = "none" THEN "segv" ELSE "assert" ]_vars

C3_Witness ==
  /\ debug /\ last.op = "free" /\ last.who = "stale" /\ status = "assert"
  /\ live # {}

\* C4 (as claimed): in_use(block) is true while the block is live and false
\* right after the matching free returned, the tag being 0 then.
C4_InUseFalseAfterFree ==
  /\ \A l \in live : debug => InUseResults(l.addr) = {"true"}
  /\ \A st \in stale :
        (debug /\ st.clean /\ st.addr \notin {l.addr : l \in live})
           => InUseResults(st.addr) = {"false"}

\* C4 (amended): in_use(block) is true and the tag is 0x1337 while the block
\* is live; free stores 0 into the tag and then releases the region holding
\* it, so after free in_use reads released memory: it returns false while the
\* region is still mapped and not handed out again, and faults once the
\* platform has unmapped it.
C4_InUseWhileLive ==
  LET page == page_size(s, q) IN
  /\ \A l \in live : debug =>
        /\ InUseResults(l.addr) = {"true"}
        /\ hdr[(l.addr - page) \div page].kind = "hdr"
        /\ hdr[(l.addr - page) \div page].magic = Magic
  /\ \A st \in stale :
        (debug /\ st.clean /\ st.addr \notin {l.addr : l \in live}) =>
           LET hp == (st.addr - page) \div page
           IN /\ hdr[hp].magic # Magic
              /\ InUseResults(st.addr) =
                   IF prot[hp] = "none" THEN {"fault"} ELSE {"false"}

C4_Witness ==
  /\ debug /\ status = "running" /\ last.op = "in_use" /\ last.ret = 0
  /\ \E st \in stale : st.addr = last.arg /\ st.clean
  /\ live # {}

C7_FailedMallocLeavesNoTrace ==
  [][ (last'.op = "malloc" /\ last'.raw = 0 /\ vars' # vars)
        => /\ last'.ret = 0
           /\ status' = "running"
           /\ UNCHANGED <<prot, hdr, areas, live, stale, misused>> ]_vars

C7_Witness ==
  /\ last.op = "malloc" /\ last.raw = 0 /\ last.ret = 0
  /\ debug /\ live # {} /\ status = "running"

\* C8 (as claimed): on every platform variant malloc asks the primitive for
\* size bytes without TORRENT_DEBUG_BUFFERS and for
\* (ceil(size / page_size()) + 2) * page_size() bytes with it, aligned to
\* page_size().
C8_RequestedCapacity ==
  last.op = "malloc" =>
     LET full == IF last.arg % s = 0 THEN last.arg \div s
                 ELSE last.arg \div s + 1
     IN /\ last.align = s
        /\ last.req = IF debug THEN (full + 2) * s ELSE last.arg

\* C9: free(nullptr) does nothing, with and without TORRENT_DEBUG_BUFFERS.
C9_FreeNullIsNoOp ==
  [][ (last'.op = "free" /\ last'.arg = 0 /\ vars' # vars)
        => /\ UNCHANGED <<s, prot, hdr, areas, live, stale, misused, status>>
           /\ last'.rel = 0 ]_vars

C9_Witness ==
  /\ last.op = "free" /\ last.arg = 0 /\ debug
  /\ live # {} /\ areas # {} /\ status = "running"

====
